---- MODULE Spec2Model ----
(***************************************************************************)
(* Order-submission workflow of cow-safe (src/src/index.ts with the        *)
(* helpers of utils, src/unnamed/part_001).                                *)
(*                                                                         *)
(* Node runs the program on a single-threaded event loop.  A state of the  *)
(* model is a point where every task is suspended on an awaited operation  *)
(* (a collaborator call or a console prompt) or the process has exited.    *)
(* An action is one run-to-completion segment: the result of the awaited   *)
(* operation arrives, the synchronous code (and the promise continuations  *)
(* it schedules) runs up to the next suspension point, a throw that lands  *)
(* in run().catch, or exit().                                              *)
(*                                                                         *)
(* entry tells where a behaviour starts:                                   *)
(*   "run"                    the process start (index.ts:473, run())      *)
(*   "safeBranch"             the Safe branch of run, index.ts:436, entered *)
(*                            with the signer that its assert requires      *)
(*   "executeSafeTransaction" index.ts:350 called and awaited on its own    *)
(* With getSigner of utils the Safe branch is not reachable from "run"     *)
(* (see SafeBranch); the other two entries examine that code as written.   *)
(***************************************************************************)
EXTENDS Integers, Sequences, FiniteSets, TLC

\* ------------------------------------------------------------------ bounds
MaxAmount == 2      \* token amounts range over 0..MaxAmount
MaxThreshold == 2   \* Safe thresholds range over 1..MaxThreshold
MaxInvalid == 2     \* invalid console answers per run

\* --------------------------------------------------------------- constants
Running == -1                 \* exitCode while the process is alive

EXIT_OK == 0                  \* index.ts:470

\* the missing argument leaving with the code of a normal end
EXIT_USAGE_AsOk == EXIT_OK

EXIT_USAGE == 99              \* index.ts:125

EXIT_ERROR == 200             \* index.ts:476

\* a decline leaving through the exit of the error handler
EXIT_DECLINED_AsError == EXIT_ERROR

EXIT_DECLINED == 100          \* index.ts:179, 201, 258

TEN_THOUSAND == 10000         \* constants.ts:5

DEFAULT_SLIPPAGE_BIPS == 100  \* constants.ts:9

NUMBER_CONFIRMATIONS_WAIT == 1  \* constants.ts:11

DEADLINE_OFFSET == 30 * 60 * 1000   \* constants.ts:8, 30min

VARIABLES
    entry,      \* where the behaviour starts (see above)
    env,        \* argv, environment and order file: fixed for the run
    pc,         \* the operation run() is suspended on; "done" after exit
    execPc,     \* the operation executeSafeTransaction is suspended on
    exitCode,   \* Running, or the code given to exit()
    error,      \* the error that reached run().catch, "none" otherwise
    signer,     \* result of getSigner: TRUE wallet, FALSE undefined
    quoteOrder, \* the QuoteQuery of run (index.ts:384), NoQuoteOrder before
    quote,      \* quoteResponse.quote, NoQuote before it arrives
    rawOrder,   \* the RawOrder of run (index.ts:395), NoRawOrder before
    balance,    \* sellToken.balanceOf(fromAccount), -1 before it is read
    allowance,  \* sellToken.allowance(fromAccount, vault), -1 before it is read
    threshold,  \* safeInfo.threshold, 0 before the Safe info arrives
    txs,        \* the OnchainOperation list of run (index.ts:413)
    txIndex,    \* position of executePreInteractions' loop in txs
    invalids,   \* number of invalid console answers so far
    trace,      \* collaborator calls, prompts, answers and console notices
    sent,       \* operations sent with signer.sendTransaction, in order
    orders,     \* orders accepted by the order book (sendOrder returned)
    links,      \* the order links printed by printExplorer, in order
    proposals   \* bundles accepted by the Safe service (proposeTransaction)

vars == <<entry, env, pc, execPc, exitCode, error, signer, quoteOrder, quote,
          rawOrder, balance,
          allowance, threshold, txs, txIndex, invalids, trace, sent, orders, links,
          proposals>>

\* ------------------------------------------------------------------ inputs
AccountTypes == {"EOA", "SAFE_WITH_EOA_PRESIGN", "SAFE_WITH_EOA_EIP1271",
                 "SAFE", "SAFE_WITH_EOA_PROPOSER", "OTHER"}
SafeTypes == {"SAFE_WITH_EOA_PRESIGN", "SAFE_WITH_EOA_EIP1271"}
Responses == {"y", "Y", "n", "N", "yes", "no", "y ", ""}
Amounts == 0..MaxAmount
OrderIds == {"uid1", "uid2"}    \* what the order book may return as order id
NoQuote == [sellAmount |-> -1, buyAmount |-> -1, feeAmount |-> -1]
NoRawOrder == [sellAmount |-> -1, buyAmount |-> -1, feeAmount |-> -1]
NoQuoteOrder == [sellAmountBeforeFee |-> -1]

\* Date.now() when the quote query is built, in milliseconds
NowMs == {0, 1}

\* The optional parts of the order file (types.ts:18-20) and the variable
\* APP_DATA of the environment: <<>> when absent, <<value>> otherwise.
OrderOptions ==
    {[partiallyFillable |-> <<>>, appData |-> <<>>, APP_DATA |-> <<>>,
      receiver |-> <<>>],
     [partiallyFillable |-> <<FALSE>>, appData |-> <<>>,
      APP_DATA |-> <<"0xenv">>, receiver |-> <<>>],
     [partiallyFillable |-> <<TRUE>>, appData |-> <<"0xorder">>,
      APP_DATA |-> <<"0xenv">>, receiver |-> <<"receiverParam">>]}

\* buy amounts the quote may name
BuyAmountQuotes == {1, TEN_THOUSAND, 2 * TEN_THOUSAND + 1}

\* order.slippageToleranceBips of the order file (types.ts:21): <<>> when the
\* file has none, <<bips>> otherwise; a decimal string is read as its number
SlippageBips == {0, 1, DEFAULT_SLIPPAGE_BIPS, TEN_THOUSAND - 1, TEN_THOUSAND,
                 TEN_THOUSAND + 1}
SlippageInputs == {<<>>} \cup {<<bips>> : bips \in SlippageBips}

\* Where the chain id of the run comes from and whether it is one of
\* SUPPORTED_CHAIN_IDS: the chainId of the order file or, when the file has
\* none, the variable CHAIN_ID (index.ts:49).
ChainIds == {"file:supported", "file:unsupported",
             "env:supported", "env:unsupported", "env:absent"}

Envs == [argGiven : BOOLEAN,
         accountType : AccountTypes,
         safeAddress : BOOLEAN,
         mnemonic : BOOLEAN,
         chainId : ChainIds,
         rpc : BOOLEAN,        \* INFURA_KEY or RPC_URL is set
         sellAmountBeforeFee : 1..MaxAmount,
         slippageToleranceBips : SlippageInputs,
         order : OrderOptions,
         now : NowMs]

\* What the user means by a console answer (the reading of spec 4.6).
Meaning(response) ==
    IF response \in {"y", "Y"} THEN "answer:yes"
    ELSE IF response \in {"n", "N"} THEN "answer:no"
    ELSE "answer:invalid"

\* ----------------------------------------------------------------- helpers
\* confirm with the branch for n and N lost: a no is taken for a yes
confirm_NoIsYes(response) ==
    IF response \in {"y", "Y", "n", "N"} THEN "true" ELSE "retry"

\* confirm taking the empty answer for yes
confirm_DefaultYes(response) ==
    IF response \in {"y", "Y", ""} THEN "true"
    ELSE IF response \in {"n", "N"} THEN "false"
    ELSE "retry"

\* confirm taking the word yes for y
confirm_YesWord(response) ==
    IF response \in {"y", "Y", "yes"} THEN "true"
    ELSE IF response \in {"n", "N"} THEN "false"
    ELSE "retry"

\* utils confirm: "true", "false", or "retry" (it asks the question again)
confirm(response) ==
    IF response = "y" \/ response = "Y" THEN "true"
    ELSE IF response = "n" \/ response = "N" THEN "false"
    ELSE "retry"

\* getSdkInstance, index.ts:49 with utils getChainIdFromEnv: "ok" or the
\* assertion that fails.  A chain id of the order file is taken as it is.
getChainId(chainId) ==
    IF chainId = "env:absent" THEN "CHAIN_ID environmentis required"
    ELSE IF chainId = "env:unsupported"
    THEN "CHAIN_ID must be one supported chainId"
    ELSE "ok"

\* the chain id has an entry in networks.json (constants.ts:12)
ChainSupported(chainId) == chainId \in {"file:supported", "env:supported"}

\* utils getProvider: "ok" or the error thrown
getProvider(rpc) ==
    IF rpc THEN "ok"
    ELSE "Either INFURA_KEY or RPC_URL environment var is required"

\* getSigner with the Safe account types of types.ts among its cases
getSigner_SafeTypesToo(accoutType, mnemonic) ==
    IF accoutType \in {"EOA", "SAFE_WITH_EOA_PROPOSER", "SAFE_WITH_EOA_PRESIGN",
                       "SAFE_WITH_EOA_EIP1271"}
    THEN IF mnemonic THEN "wallet" ELSE "AssertionError"
    ELSE "undefined"

\* utils getSigner: "wallet", "undefined", or "AssertionError"
getSigner(accoutType, mnemonic) ==
    IF accoutType \in {"EOA", "SAFE_WITH_EOA_PROPOSER"}
    THEN IF mnemonic THEN "wallet" ELSE "AssertionError"
    ELSE "undefined"

\* getTradingAccounts without the assert on safeAddress
getTradingAccounts_NoSafeAssert(accountType, safeAddress, signingAccount) ==
    IF accountType = "EOA"
    THEN IF signingAccount THEN "ok" ELSE "The signer address is missing"
    ELSE "ok"

\* getTradingAccounts: "ok" or the assertion that fails
getTradingAccounts(accountType, safeAddress, signingAccount) ==
    IF accountType = "EOA"
    THEN IF signingAccount THEN "ok" ELSE "The signer address is missing"
    ELSE IF safeAddress THEN "ok" ELSE "The safeAddress is a required parameter"

\* the signing account trading for every account type
fromAccount_AlwaysSigner == "signingAccount"

\* the account the order trades from (index.ts:72, 77)
fromAccount == IF env.accountType = "EOA" THEN "signingAccount" ELSE "safeAddress"

\* getTradingAccounts keeping the account as receiver
receiver_AlwaysAccount(receiverParam) == fromAccount

\* getTradingAccounts, index.ts:73, 78: receiverParam || fromAccount
receiver(receiverParam) ==
    IF receiverParam # <<>> THEN receiverParam[1] ELSE fromAccount

\* constants.ts:7: APP_DATA of the environment, or 32 zero bytes
APP_DATA(environment) ==
    IF environment # <<>> THEN environment[1]
    ELSE "0x0000000000000000000000000000000000000000000000000000000000000000"

\* Math.ceil(ms / 1000) for ms >= 0
ceilSeconds(ms) == (ms + 999) \div 1000

\* getQuoteOrder with the deadline rounded down
getQuoteOrder_FloorDeadline(order, sellAmountBeforeFee, now) ==
    [partiallyFillable |-> IF order.partiallyFillable # <<>>
                           THEN order.partiallyFillable[1] ELSE FALSE,
     kind |-> "sell",
     sellTokenBalance |-> "erc20",
     buyTokenBalance |-> "erc20",
     sellToken |-> "sellToken",
     buyToken |-> "buyToken",
     sellAmountBeforeFee |-> sellAmountBeforeFee,
     from |-> fromAccount,
     receiver |-> receiver(order.receiver),
     validTo |-> (now + DEADLINE_OFFSET) \div 1000,
     appData |-> IF order.appData # <<>> THEN order.appData[1]
                 ELSE APP_DATA(order.APP_DATA)]

\* getQuoteOrder, index.ts:84-119
getQuoteOrder(order, sellAmountBeforeFee, now) ==
    [partiallyFillable |-> IF order.partiallyFillable # <<>>
                           THEN order.partiallyFillable[1] ELSE FALSE,
     kind |-> "sell",
     sellTokenBalance |-> "erc20",
     buyTokenBalance |-> "erc20",
     sellToken |-> "sellToken",
     buyToken |-> "buyToken",
     sellAmountBeforeFee |-> sellAmountBeforeFee,
     from |-> fromAccount,
     receiver |-> receiver(order.receiver),
     validTo |-> ceilSeconds(now + DEADLINE_OFFSET),
     appData |-> IF order.appData # <<>> THEN order.appData[1]
                 ELSE APP_DATA(order.APP_DATA)]

\* BigNumber.div of ethers 5 (BN.js div): the quotient truncated toward zero
div(a, b) == IF a >= 0 THEN a \div b ELSE -((-a) \div b)

\* getCustomPrice, index.ts:481-483: the default of the destructuring
slippageToleranceBips(given) ==
    IF given = <<>> THEN DEFAULT_SLIPPAGE_BIPS ELSE given[1]

\* getCustomPrice adding the tolerance to the quote instead of taking it off
getCustomPrice_AddsTolerance(sellAmountQuote, buyAmountQuote, given) ==
    [sellAmount |-> sellAmountQuote,
     buyAmount |-> div(buyAmountQuote
                         * (TEN_THOUSAND + slippageToleranceBips(given)),
                       TEN_THOUSAND)]

\* getCustomPrice, index.ts:479-496
getCustomPrice(sellAmountQuote, buyAmountQuote, given) ==
    [sellAmount |-> sellAmountQuote,
     buyAmount |-> div(buyAmountQuote
                         * (TEN_THOUSAND - slippageToleranceBips(given)),
                       TEN_THOUSAND)]

\* The same computation on amounts beyond the integers of the checker: a
\* BigNumber >= 0 as its digits in base TEN_THOUSAND, lowest first.
RECURSIVE BigNumberFrom(_)
BigNumberFrom(n) ==
    IF n = 0 THEN <<>>
    ELSE <<n % TEN_THOUSAND>> \o BigNumberFrom(n \div TEN_THOUSAND)

\* BigNumber.mul by a factor in 0..TEN_THOUSAND, with the carry so far
RECURSIVE BigNumberMul(_, _, _)
BigNumberMul(x, factor, carry) ==
    IF x = <<>>
    THEN BigNumberFrom(carry)
    ELSE <<(x[1] * factor + carry) % TEN_THOUSAND>>
         \o BigNumberMul(Tail(x), factor,
                         (x[1] * factor + carry) \div TEN_THOUSAND)

\* leading digits 0 removed
RECURSIVE BigNumberTrim(_)
BigNumberTrim(x) ==
    IF x # <<>> /\ x[Len(x)] = 0
    THEN BigNumberTrim(SubSeq(x, 1, Len(x) - 1))
    ELSE x

\* BigNumber.div(TEN_THOUSAND): the lowest digit is dropped
BigNumberDivTenThousand(x) == IF x = <<>> THEN <<>> ELSE Tail(x)

\* getCustomPrice, index.ts:485-489, for 0 <= bips <= TEN_THOUSAND
getCustomPriceBigNumber(buyAmountQuote, bips) ==
    BigNumberTrim(BigNumberDivTenThousand(
        BigNumberTrim(BigNumberMul(buyAmountQuote, TEN_THOUSAND - bips, 0))))

\* an object without one of its keys (delete)
Without(object, key) == [k \in DOMAIN object \ {key} |-> object[k]]

\* run building the RawOrder with a deadline computed anew
RawOrder_NewDeadline(query, q, given) ==
    Without([receiver |-> query.receiver,
             validTo |-> query.validTo + 1,
             sellAmount |-> getCustomPrice(q.sellAmount, q.buyAmount,
                                           given).sellAmount,
             buyAmount |-> getCustomPrice(q.sellAmount, q.buyAmount,
                                          given).buyAmount,
             feeAmount |-> q.feeAmount,
             priceQuality |-> "optimal"] @@ query,
            "sellAmountBeforeFee")

\* run building the RawOrder without the delete of index.ts:410
RawOrder_KeepsQuotingKeys(query, q, given) ==
    [sellAmount |-> getCustomPrice(q.sellAmount, q.buyAmount, given).sellAmount,
     buyAmount |-> getCustomPrice(q.sellAmount, q.buyAmount, given).buyAmount,
     feeAmount |-> q.feeAmount,
     priceQuality |-> "optimal"] @@ query

\* run, index.ts:392-410: the RawOrder, the quote query with the price, the
\* fee and priceQuality put over it and sellAmountBeforeFee deleted
RawOrder(query, q, given) ==
    Without([receiver |-> query.receiver,
             sellAmount |-> getCustomPrice(q.sellAmount, q.buyAmount,
                                           given).sellAmount,
             buyAmount |-> getCustomPrice(q.sellAmount, q.buyAmount,
                                          given).buyAmount,
             feeAmount |-> q.feeAmount,
             priceQuality |-> "optimal"] @@ query,
            "sellAmountBeforeFee")

\* the quotes the order book may answer with for a sell order: the fee is
\* taken from sellAmountBeforeFee and leaves an amount to sell
Quotes(sellAmountBeforeFee) ==
    {[sellAmount |-> sellAmountBeforeFee - fee, buyAmount |-> buy,
      feeAmount |-> fee] : fee \in 0..(sellAmountBeforeFee - 1),
                           buy \in BuyAmountQuotes}

\* utils getCowExplorerUrl for a chain it knows
getCowExplorerUrl(chainId) ==
    IF ChainSupported(chainId) THEN "{explorerBase}" ELSE "Unknonw network"

\* printExplorer printing the history link of the account alone
printExplorer_AddressOnly(orderId, chainId) ==
    getCowExplorerUrl(chainId) \o "/address/" \o orderId

\* printExplorer, index.ts:41-46: the order link it prints
printExplorer(orderId, chainId) ==
    getCowExplorerUrl(chainId) \o "/orders/" \o orderId

\* getAppoveOperation with the balance compared to nothing
NotEnoughBalance_Never(bal, sellAmountBeforeFee) == FALSE

\* getAppoveOperation, index.ts:139: the balance check that throws
NotEnoughBalance(bal, sellAmountBeforeFee) == bal < sellAmountBeforeFee

\* constants.ts:4, the amount approved: 64 hex digits f, 2^256 - 1
MAX_U32 ==
    "0xffffffffffffffffffffffffffffffffffffffffffffffffffffffffffffffff"

\* getAppoveOperation, index.ts:152-159: the approve operation
ApproveOperation ==
    [description |-> "Approve sell token",
     to |-> "sellToken",
     value |-> "0",
     data |-> <<"approve", "vaultRelayer", MAX_U32>>]

\* getAppoveOperation approving also when the allowance equals the amount
getAppoveOperation_Strict(allow, sellAmount) ==
    IF allow > sellAmount THEN <<>> ELSE <<ApproveOperation>>

\* getAppoveOperation, index.ts:146-159: the operations it returns
getAppoveOperation(allow, sellAmount) ==
    IF allow >= sellAmount THEN <<>> ELSE <<ApproveOperation>>

\* getPresignOperation with the order id of another order
getPresignOperation_StaleId(orderId) ==
    [description |-> "Pre-sign order",
     to |-> "settlement",
     value |-> "0",
     data |-> <<"setPreSignature", "uid1", "true">>]

\* getPresignOperation, index.ts:289-303
getPresignOperation(orderId) ==
    [description |-> "Pre-sign order",
     to |-> "settlement",
     value |-> "0",
     data |-> <<"setPreSignature", orderId, "true">>]

\* postOrderPresign putting the pre-sign operation in front (unshift)
bundle_PresignFirst(ops, presignOperation) == <<presignOperation>> \o ops

\* postOrderPresign, index.ts:274: txs.push(presignOperations)
bundle(ops, presignOperation) == Append(ops, presignOperation)

\* postSafeProposal bundling only the last operation
txRequests_OnlyLast(ops) ==
    <<[to |-> ops[Len(ops)].to, value |-> ops[Len(ops)].value,
       data |-> ops[Len(ops)].data]>>

\* postSafeProposal, index.ts:325: txs.map(tx => tx.txRequest)
txRequests(ops) ==
    [i \in 1..Len(ops) |->
        [to |-> ops[i].to, value |-> ops[i].value, data |-> ops[i].data]]

\* run().catch(console.error), as in the drafts: the error is logged and the
\* process ends with the code of a normal end
Throw_LogOnly(e) ==
    /\ pc' = "done"
    /\ exitCode' = EXIT_OK
    /\ error' = e

\* run().catch leaving with the code of a decline
Throw_AsDecline(e) ==
    /\ pc' = "done"
    /\ exitCode' = EXIT_DECLINED
    /\ error' = e

\* run().catch: log the error, exit(200)
Throw(e) ==
    /\ pc' = "done"
    /\ exitCode' = EXIT_ERROR
    /\ error' = e

\* process.exit leaving the pending continuation to run once more
exit_Resumes(code) ==
    /\ pc' = pc
    /\ exitCode' = exitCode
    /\ error' = error

\* exit returning to its caller with the process left running
exit_Returns(code) ==
    /\ pc' = "done"
    /\ exitCode' = exitCode
    /\ error' = error

\* process.exit, index.ts:20: the process ends with the code
exit(code) ==
    /\ pc' = "done"
    /\ exitCode' = code
    /\ error' = error

\* suspend run() on the operation op
Await(op) ==
    /\ pc' = op
    /\ exitCode' = exitCode
    /\ error' = error

Alive == exitCode = Running

\* ------------------------------------------------------------------- Init
Fresh ==
    /\ exitCode = Running
    /\ error = "none"
    /\ balance = -1
    /\ allowance = -1
    /\ threshold = 0
    /\ txIndex = 0
    /\ invalids = 0
    /\ sent = <<>>
    /\ orders = <<>>
    /\ links = <<>>
    /\ proposals = <<>>

\* the process starts: run() is called (index.ts:473)
InitRun ==
    /\ entry = "run"
    /\ env \in Envs
    /\ pc = "start"
    /\ execPc = "none"
    /\ signer = FALSE
    /\ txs = <<>>
    /\ trace = <<>>
    /\ quoteOrder = NoQuoteOrder
    /\ quote = NoQuote
    /\ rawOrder = NoRawOrder
    /\ Fresh

\* --------------------------------------------------------- run: the set-up
\* run, index.ts:374-375: getOrderFilePath, then the order file is read
Start ==
    /\ Alive /\ pc = "start"
    /\ IF env.argGiven
       THEN Await("readFile") /\ trace' = <<"readFile">>
       ELSE exit(EXIT_USAGE) /\ trace' = <<"usage">>
    /\ UNCHANGED <<entry, env, execPc, signer, quoteOrder, quote, rawOrder, balance, allowance, threshold,
                   txs, txIndex, invalids, sent, orders, links, proposals>>

\* run, index.ts:375-388: the order file arrives; getSdkInstance,
\* getTradingAccounts, getQuoteOrder, and the quote is requested.  run never
\* calls getChainId of utils on the chain id of the file; whether the
\* provider and SDK constructors (index.ts:51, 55) take a chain id outside
\* SUPPORTED_CHAIN_IDS is theirs to decide (accepted).
getOrder ==
    /\ Alive /\ pc = "readFile"
    /\ \E ok \in BOOLEAN, accepted \in BOOLEAN :
        /\ LET s == getSigner(env.accountType, env.mnemonic)
               accounts == getTradingAccounts(env.accountType, env.safeAddress,
                                              s = "wallet")
           IN  IF ~ok
               THEN Throw("readFile") /\ UNCHANGED <<signer, trace>>
               ELSE IF getChainId(env.chainId) # "ok"
               THEN Throw(getChainId(env.chainId)) /\ UNCHANGED <<signer, trace>>
               ELSE IF getProvider(env.rpc) # "ok"
               THEN Throw(getProvider(env.rpc)) /\ UNCHANGED <<signer, trace>>
               ELSE IF ~ChainSupported(env.chainId) /\ ~accepted
               THEN Throw("unsupported network") /\ UNCHANGED <<signer, trace>>
               ELSE IF s = "AssertionError"
               THEN Throw("MNEMONIC environment var is required")
                    /\ UNCHANGED <<signer, trace>>
               ELSE IF accounts # "ok"
               THEN Throw(accounts) /\ signer' = (s = "wallet") /\ UNCHANGED trace
               ELSE /\ Await("getQuote")
                    /\ signer' = (s = "wallet")
                    /\ trace' = Append(trace, "getQuote")
        /\ quoteOrder' = IF pc' = "getQuote"
                         THEN getQuoteOrder(env.order,
                                            env.sellAmountBeforeFee, env.now)
                         ELSE quoteOrder
    /\ UNCHANGED <<entry, env, execPc, quote, rawOrder, balance, allowance, threshold, txs, txIndex,
                   invalids, sent, orders, links, proposals>>

\* run, index.ts:388-417 and getAppoveOperation, index.ts:136-138: the quote
\* arrives, the raw order is built and the balance is requested
getQuote ==
    /\ Alive /\ pc = "getQuote"
    /\ \E ok \in BOOLEAN, q \in Quotes(env.sellAmountBeforeFee) :
        IF ~ok
        THEN Throw("getQuote") /\ UNCHANGED <<quoteOrder, quote, rawOrder, trace>>
        ELSE /\ Await("balanceOf")
             /\ quote' = q
             /\ rawOrder' = RawOrder(quoteOrder, q, env.slippageToleranceBips)
             /\ trace' = Append(trace, "balanceOf")
    /\ UNCHANGED <<entry, env, execPc, signer, quoteOrder, balance, allowance, threshold, txs, txIndex,
                   invalids, sent, orders, links, proposals>>

\* getAppoveOperation, index.ts:138-145: the balance arrives; the vault
\* address of the chain is looked up
balanceOf ==
    /\ Alive /\ pc = "balanceOf"
    /\ \E ok \in BOOLEAN, bal \in Amounts :
        IF ~ok
        THEN Throw("balanceOf") /\ UNCHANGED <<balance, trace>>
        ELSE IF NotEnoughBalance(bal, env.sellAmountBeforeFee)
        THEN Throw("User doesn't have enough balance")
             /\ balance' = bal /\ UNCHANGED trace
        ELSE IF ~ChainSupported(env.chainId)
        THEN Throw("TypeError: vaultAddresses[chainId] is undefined")
             /\ balance' = bal /\ UNCHANGED trace
        ELSE /\ Await("allowance")
             /\ balance' = bal
             /\ trace' = Append(trace, "allowance")
    /\ UNCHANGED <<entry, env, execPc, signer, quoteOrder, quote, rawOrder, allowance, threshold, txs, txIndex,
                   invalids, sent, orders, links, proposals>>

\* run asking for the order before the pending operations are executed
NextPrompt_PostFirst(ops, i) == "prompt:post"

\* executePreInteractions, index.ts:166-176, continued at index.ts:198 by
\* signAndPostOrderEip712 when no operation is left: what is shown next
NextPrompt(ops, i) == IF i <= Len(ops) THEN "prompt:tx" ELSE "prompt:post"

\* run sending every account type down the Safe branch
AccountPath_AlwaysSafe(accountType) == "safe"

\* run, index.ts:422-467: the branch the account type selects
AccountPath(accountType) ==
    IF accountType = "EOA" THEN "eoa"
    ELSE IF accountType \in SafeTypes THEN "safe"
    ELSE "Not implemented"

\* run, index.ts:434-438: the Safe branch up to its first call
SafeBranch(hasSigner) == IF hasSigner THEN "Safe.create" ELSE "AssertionError"

\* getAppoveOperation, index.ts:145-160 and run, index.ts:417-438: the
\* allowance arrives, the operation list is set up, the account type selects
\* the path
allowanceOf ==
    /\ Alive /\ pc = "allowance"
    /\ \E ok \in BOOLEAN, allow \in Amounts :
        LET ops == getAppoveOperation(allow, quote.sellAmount)
        IN  IF ~ok
            THEN Throw("allowance")
                 /\ UNCHANGED <<allowance, txs, txIndex, trace>>
            ELSE /\ allowance' = allow
                 /\ txs' = ops
                 /\ IF AccountPath(env.accountType) = "eoa"
                    THEN IF signer
                         THEN /\ Await(NextPrompt(ops, 1))
                              /\ txIndex' = 1
                              /\ trace' = Append(trace, NextPrompt(ops, 1))
                         ELSE Throw("AssertionError")
                              /\ UNCHANGED <<txIndex, trace>>
                    ELSE IF AccountPath(env.accountType) = "safe"
                    THEN IF SafeBranch(signer) = "AssertionError"
                         THEN Throw("AssertionError")
                              /\ UNCHANGED <<txIndex, trace>>
                         ELSE /\ Await(SafeBranch(signer))
                              /\ trace' = Append(trace, SafeBranch(signer))
                              /\ UNCHANGED txIndex
                    ELSE Throw("Not implemented")
                         /\ UNCHANGED <<txIndex, trace>>
    /\ UNCHANGED <<entry, env, execPc, signer, quoteOrder, quote, rawOrder, balance, threshold, invalids, sent,
                   orders, links, proposals>>

\* ------------------------------------------------------------ the EOA path
\* a console answer that confirm does not accept: the question is asked again
Retry(prompt) ==
    /\ invalids < MaxInvalid
    /\ invalids' = invalids + 1
    /\ trace' = trace \o <<"answer:invalid", prompt>>
    /\ UNCHANGED <<pc, exitCode, error>>

\* executePreInteractions, index.ts:176-187: the answer to 'Approve
\* transaction?' arrives
confirmTransaction ==
    /\ Alive /\ pc = "prompt:tx"
    /\ \E response \in Responses :
        CASE confirm(response) = "retry" -> Retry("prompt:tx")
          [] confirm(response) = "false" ->
                /\ exit(EXIT_DECLINED)
                /\ trace' = Append(trace, Meaning(response))
                /\ UNCHANGED invalids
          [] confirm(response) = "true" ->
                /\ Await("sendTransaction")
                /\ trace' = trace \o <<Meaning(response), "sendTransaction">>
                /\ UNCHANGED invalids
    /\ UNCHANGED <<entry, env, execPc, signer, quoteOrder, quote, rawOrder, balance, allowance, threshold,
                   txs, txIndex, sent, orders, links, proposals>>

\* the second wait given no number of confirmations
waited_NoCount(confirmations) == "wait()"

\* executePreInteractions, index.ts:190: the wait for a number of
\* confirmations that has returned
waited(confirmations) == "wait(" \o ToString(confirmations) \o ")"

\* executePreInteractions, index.ts:182-188: the transaction was broadcast
sendTransaction ==
    /\ Alive /\ pc = "sendTransaction"
    /\ \E ok \in BOOLEAN :
        IF ~ok
        THEN Throw("sendTransaction") /\ UNCHANGED <<sent, trace>>
        ELSE /\ Await("wait")
             /\ sent' = Append(sent, [from |-> "signingAccount",
                                      to |-> txs[txIndex].to,
                                      data |-> txs[txIndex].data,
                                      waits |-> <<>>])
             /\ trace' = Append(trace, "wait")
    /\ UNCHANGED <<entry, env, execPc, signer, quoteOrder, quote, rawOrder, balance, allowance, threshold,
                   txs, txIndex, invalids, orders, links, proposals>>

\* executePreInteractions, index.ts:188-190: the transaction was mined
wait ==
    /\ Alive /\ pc = "wait"
    /\ \E ok \in BOOLEAN :
        IF ~ok
        THEN Throw("wait") /\ UNCHANGED <<sent, trace>>
        ELSE /\ Await("waitConfirmations")
             /\ sent' = [sent EXCEPT ![txIndex].waits = Append(@, "wait()")]
             /\ trace' = Append(trace, "waitConfirmations")
    /\ UNCHANGED <<entry, env, execPc, signer, quoteOrder, quote, rawOrder, balance, allowance, threshold,
                   txs, txIndex, invalids, orders, links, proposals>>

\* executePreInteractions, index.ts:190-191, 170-176 and
\* signAndPostOrderEip712, index.ts:198: the confirmations arrived; the next
\* operation, or the order, is put to the user
waitConfirmations ==
    /\ Alive /\ pc = "waitConfirmations"
    /\ \E ok \in BOOLEAN :
        IF ~ok
        THEN Throw("wait(NUMBER_CONFIRMATIONS_WAIT)")
             /\ UNCHANGED <<txIndex, sent, trace>>
        ELSE /\ Await(NextPrompt(txs, txIndex + 1))
             /\ txIndex' = txIndex + 1
             /\ sent' = [sent EXCEPT ![txIndex].waits =
                            Append(@, waited(NUMBER_CONFIRMATIONS_WAIT))]
             /\ trace' = Append(trace, NextPrompt(txs, txIndex + 1))
    /\ UNCHANGED <<entry, env, execPc, signer, quoteOrder, quote, rawOrder, balance, allowance, threshold, txs,
                   invalids, orders, links, proposals>>

\* signAndPostOrderEip712, index.ts:198-206: the answer to 'post this
\* order?' arrives
confirmPostEip712 ==
    /\ Alive /\ pc = "prompt:post" /\ env.accountType = "EOA"
    /\ \E response \in Responses :
        CASE confirm(response) = "retry" -> Retry("prompt:post")
          [] confirm(response) = "false" ->
                /\ exit(EXIT_DECLINED)
                /\ trace' = Append(trace, Meaning(response))
                /\ UNCHANGED invalids
          [] confirm(response) = "true" ->
                /\ Await("signOrder")
                /\ trace' = trace \o <<Meaning(response), "signOrder">>
                /\ UNCHANGED invalids
    /\ UNCHANGED <<entry, env, execPc, signer, quoteOrder, quote, rawOrder, balance, allowance, threshold,
                   txs, txIndex, sent, orders, links, proposals>>

\* signAndPostOrderEip712, index.ts:206-219: the signature arrives
signOrder ==
    /\ Alive /\ pc = "signOrder"
    /\ \E ok \in BOOLEAN, signature \in BOOLEAN :
        IF ~ok
        THEN Throw("signOrder") /\ UNCHANGED trace
        ELSE IF ~signature
        THEN Throw("signOrder must return the signature") /\ UNCHANGED trace
        ELSE Await("sendOrder:eip712")
             /\ trace' = Append(trace, "sendOrder:eip712")
    /\ UNCHANGED <<entry, env, execPc, signer, quoteOrder, quote, rawOrder, balance, allowance, threshold,
                   txs, txIndex, invalids, sent, orders, links, proposals>>

\* signAndPostOrderEip712, index.ts:212-221 and run, index.ts:469-470: the
\* order book answers; the explorer link is printed and the process exits
sendOrderEip712 ==
    /\ Alive /\ pc = "sendOrder:eip712"
    /\ \E ok \in BOOLEAN, orderId \in OrderIds :
        IF ~ok
        THEN Throw("sendOrder") /\ UNCHANGED <<orders, links, trace>>
        ELSE /\ exit(EXIT_OK)
             /\ orders' = Append(orders, [uid |-> orderId,
                                          signingScheme |-> "eip712",
                                          signature |-> "signOrder",
                                          owner |-> "signingAccount"]
                                         @@ rawOrder)
             /\ links' = Append(links, printExplorer(orderId, env.chainId))
             /\ trace' = Append(trace, "printExplorer")
    /\ UNCHANGED <<entry, env, execPc, signer, quoteOrder, quote, rawOrder, balance, allowance, threshold,
                   txs, txIndex, invalids, sent, proposals>>

\* ----------------------------------------------------------- the Safe path
SafeEnvs == {e \in Envs : /\ e.argGiven /\ e.safeAddress /\ e.mnemonic
                          /\ e.rpc /\ ChainSupported(e.chainId)
                          /\ e.accountType \in SafeTypes}

\* run at index.ts:436-438: the assert on the signer has passed and
\* Safe.create is in flight; txs is what the planner left (index.ts:417-420)
InitSafeBranch ==
    /\ entry = "safeBranch"
    /\ env \in SafeEnvs
    /\ pc = "Safe.create"
    /\ execPc = "none"
    /\ signer = TRUE
    /\ txs \in {<<>>, <<ApproveOperation>>}
    /\ trace = <<"Safe.create">>
    /\ quoteOrder = getQuoteOrder(env.order, env.sellAmountBeforeFee, env.now)
    /\ quote \in Quotes(env.sellAmountBeforeFee)
    /\ rawOrder = RawOrder(quoteOrder, quote, env.slippageToleranceBips)
    /\ Fresh

\* getSafe, index.ts:236-238 and run, index.ts:441: the Safe instance arrives
getSafe ==
    /\ Alive /\ pc = "Safe.create"
    /\ \E ok \in BOOLEAN :
        IF ~ok
        THEN Throw("Safe.create") /\ UNCHANGED trace
        ELSE Await("getSafeInfo") /\ trace' = Append(trace, "getSafeInfo")
    /\ UNCHANGED <<entry, env, execPc, signer, quoteOrder, quote, rawOrder, balance, allowance,
                   threshold, txs, txIndex, invalids, sent, orders, links, proposals>>

\* run, index.ts:444-464: "presign", or the error thrown
usePresign(accountType, pending) ==
    IF accountType = "SAFE_WITH_EOA_EIP1271"
    THEN IF pending > 0 THEN "presign" ELSE "Not implemented EIP-1271"
    ELSE IF accountType = "SAFE_WITH_EOA_PRESIGN"
    THEN "presign"
    ELSE "Unsupported account type"

\* run, index.ts:447: the notice of the degradation to pre-sign
Notice(accountType) ==
    IF accountType = "SAFE_WITH_EOA_EIP1271" THEN <<"notice:eip1271">> ELSE <<>>

\* run, index.ts:441-464 and postOrderPresign, index.ts:255: the Safe info
\* arrives, the signing scheme is chosen, the order is put to the user
getSafeInfo ==
    /\ Alive /\ pc = "getSafeInfo"
    /\ \E ok \in BOOLEAN, th \in 1..MaxThreshold :
        IF ~ok
        THEN Throw("getSafeInfo") /\ UNCHANGED <<threshold, trace>>
        ELSE /\ threshold' = th
             /\ IF usePresign(env.accountType, Len(txs)) = "presign"
                THEN /\ Await("prompt:post")
                     /\ trace' = trace \o Notice(env.accountType)
                                       \o <<"prompt:post">>
                ELSE /\ Throw(usePresign(env.accountType, Len(txs)))
                     /\ UNCHANGED trace
    /\ UNCHANGED <<entry, env, execPc, signer, quoteOrder, quote, rawOrder, balance, allowance, txs,
                   txIndex, invalids, sent, orders, links, proposals>>

\* postOrderPresign, index.ts:255-262: the answer to 'post this order?'
confirmPostPresign ==
    /\ Alive /\ pc = "prompt:post" /\ env.accountType # "EOA"
    /\ \E response \in Responses :
        CASE confirm(response) = "retry" -> Retry("prompt:post")
          [] confirm(response) = "false" ->
                /\ exit(EXIT_DECLINED)
                /\ trace' = Append(trace, Meaning(response))
                /\ UNCHANGED invalids
          [] confirm(response) = "true" ->
                /\ Await("sendOrder:presign")
                /\ trace' = trace \o <<Meaning(response), "sendOrder:presign">>
                /\ UNCHANGED invalids
    /\ UNCHANGED <<entry, env, execPc, signer, quoteOrder, quote, rawOrder, balance, allowance,
                   threshold, txs, txIndex, sent, orders, links, proposals>>

\* postOrderPresign, index.ts:262-280, getPresignOperation and postSafeProposal,
\* index.ts:325: the order book answers; the pre-sign operation is appended and
\* the bundle is created
sendOrderPresign ==
    /\ Alive /\ pc = "sendOrder:presign"
    /\ \E ok \in BOOLEAN, orderId \in OrderIds :
        IF ~ok
        THEN Throw("sendOrder") /\ UNCHANGED <<orders, links, txs, trace>>
        ELSE /\ Await("createTransaction")
             /\ orders' = Append(orders, [uid |-> orderId,
                                          signingScheme |-> "presign",
                                          signature |-> fromAccount,
                                          owner |-> fromAccount]
                                         @@ rawOrder)
             /\ links' = Append(links, printExplorer(orderId, env.chainId))
             /\ txs' = bundle(txs, getPresignOperation(orderId))
             /\ trace' = trace \o <<"printExplorer", "createTransaction">>
    /\ UNCHANGED <<entry, env, execPc, signer, quoteOrder, quote, rawOrder, balance, allowance,
                   threshold, txIndex, invalids, sent, proposals>>

\* postSafeProposal, index.ts:325-326: the bundle transaction was created
\* from txs, which nothing changes until it is proposed
createTransaction ==
    /\ Alive /\ pc = "createTransaction"
    /\ \E ok \in BOOLEAN :
        IF ~ok
        THEN Throw("createTransaction") /\ UNCHANGED trace
        ELSE Await("signTransaction")
             /\ trace' = Append(trace, "signTransaction")
    /\ UNCHANGED <<entry, env, execPc, signer, quoteOrder, quote, rawOrder, balance, allowance,
                   threshold, txs, txIndex, invalids, sent, orders, links, proposals>>

\* postSafeProposal, index.ts:326-327: the bundle transaction was signed
signTransaction ==
    /\ Alive /\ pc = "signTransaction"
    /\ \E ok \in BOOLEAN :
        IF ~ok
        THEN Throw("signTransaction") /\ UNCHANGED trace
        ELSE Await("getTransactionHash")
             /\ trace' = Append(trace, "getTransactionHash")
    /\ UNCHANGED <<entry, env, execPc, signer, quoteOrder, quote, rawOrder, balance, allowance,
                   threshold, txs, txIndex, invalids, sent, orders, links, proposals>>

\* postSafeProposal, index.ts:327-342: the hash arrives, the proposal is sent
getTransactionHash ==
    /\ Alive /\ pc = "getTransactionHash"
    /\ \E ok \in BOOLEAN :
        IF ~ok
        THEN Throw("getTransactionHash") /\ UNCHANGED trace
        ELSE Await("proposeTransaction")
             /\ trace' = Append(trace, "proposeTransaction")
    /\ UNCHANGED <<entry, env, execPc, signer, quoteOrder, quote, rawOrder, balance, allowance,
                   threshold, txs, txIndex, invalids, sent, orders, links, proposals>>

\* executeSafeTransaction, index.ts:354: the message that more signatures
\* are required, with the number of signers it names
moreSignatures(signers) == "moreSignatures:" \o ToString(signers)

\* executeSafeTransaction reporting the threshold itself as still missing
executeSafeTransactionLog_WholeThreshold(th) ==
    IF th # 1 THEN <<moreSignatures(th)>> ELSE <<"prompt:exec">>

\* executeSafeTransaction, index.ts:351-359, up to its first suspension: what
\* it prints, and where it is left
executeSafeTransactionLog(th) ==
    IF th # 1 THEN <<moreSignatures(th - 1)>> ELSE <<"prompt:exec">>

executeSafeTransactionPc(th) ==
    IF th # 1 THEN "returned" ELSE "prompt:exec"

\* postSafeProposal, index.ts:342-345, postOrderPresign, index.ts:280-285 and
\* run, index.ts:460, 469-470: the Safe service accepted the proposal;
\* executeSafeTransaction is called and its promise dropped, postOrderPresign
\* returns the order id, run prints the explorer link and exits
proposeTransaction ==
    /\ Alive /\ pc = "proposeTransaction"
    /\ \E ok \in BOOLEAN :
        IF ~ok
        THEN Throw("proposeTransaction")
             /\ UNCHANGED <<execPc, proposals, links, trace>>
        ELSE /\ proposals' = Append(proposals, txRequests(txs))
             /\ links' = Append(links, printExplorer(orders[Len(orders)].uid,
                                                     env.chainId))
             /\ execPc' = executeSafeTransactionPc(threshold)
             /\ trace' = trace \o executeSafeTransactionLog(threshold)
                               \o <<"printExplorer">>
             /\ exit(EXIT_OK)
    /\ UNCHANGED <<entry, env, signer, quoteOrder, quote, rawOrder, balance, allowance, threshold,
                   txs, txIndex, invalids, sent, orders>>

\* ------------------------------------------------- executeSafeTransaction
\* executeSafeTransaction(index.ts:350) was called and runs to its first
\* suspension; its caller waits for the promise it returned
InitExecute ==
    /\ entry = "executeSafeTransaction"
    /\ env \in SafeEnvs
    /\ pc = "executeSafeTransaction"
    /\ signer = TRUE
    /\ \E orderId \in OrderIds : txs = <<getPresignOperation(orderId)>>
    /\ \E th \in 1..MaxThreshold :
        /\ threshold = th
        /\ execPc = executeSafeTransactionPc(th)
        /\ trace = executeSafeTransactionLog(th)
    /\ exitCode = Running
    /\ error = "none"
    /\ quoteOrder = NoQuoteOrder
    /\ quote = NoQuote
    /\ rawOrder = NoRawOrder
    /\ balance = -1
    /\ allowance = -1
    /\ txIndex = 0
    /\ invalids = 0
    /\ sent = <<>>
    /\ orders = <<>>
    /\ links = <<>>
    /\ proposals = <<>>

\* executeSafeTransaction, index.ts:359-367: the answer to 'execute the
\* transaction?' arrives
confirmExecute ==
    /\ Alive /\ execPc = "prompt:exec"
    /\ \E response \in Responses :
        CASE confirm(response) = "retry" ->
                /\ Retry("prompt:exec")
                /\ UNCHANGED execPc
          [] confirm(response) = "false" ->
                /\ execPc' = "returned"
                /\ trace' = Append(trace, Meaning(response))
                /\ UNCHANGED <<pc, exitCode, error, invalids>>
          [] confirm(response) = "true" ->
                /\ execPc' = "executeTransaction"
                /\ trace' = trace \o <<Meaning(response), "executeTransaction">>
                /\ UNCHANGED <<pc, exitCode, error, invalids>>
    /\ UNCHANGED <<entry, env, signer, quoteOrder, quote, rawOrder, balance, allowance, threshold,
                   txs, txIndex, sent, orders, links, proposals>>

\* executeSafeTransaction, index.ts:367-369: the Safe transaction was sent, or
\* the promise of executeSafeTransaction is rejected
executeTransaction ==
    /\ Alive /\ execPc = "executeTransaction"
    /\ \E ok \in BOOLEAN :
        /\ execPc' = IF ok THEN "returned" ELSE "rejected"
        /\ trace' = IF ok THEN Append(trace, "executed") ELSE trace
    /\ UNCHANGED <<entry, env, pc, exitCode, error, signer, quoteOrder, quote, rawOrder, balance,
                   allowance, threshold, txs, txIndex, invalids, sent, orders, links,
                   proposals>>

\* -------------------------------------------------------- the specification
Init == InitRun \/ InitSafeBranch \/ InitExecute

Next ==
    \/ Start
    \/ getOrder
    \/ getQuote
    \/ balanceOf
    \/ allowanceOf
    \/ confirmTransaction
    \/ sendTransaction
    \/ wait
    \/ waitConfirmations
    \/ confirmPostEip712
    \/ signOrder
    \/ sendOrderEip712
    \/ getSafe
    \/ getSafeInfo
    \/ confirmPostPresign
    \/ sendOrderPresign
    \/ createTransaction
    \/ signTransaction
    \/ getTransactionHash
    \/ proposeTransaction
    \/ confirmExecute
    \/ executeTransaction

Spec == Init /\ [][Next]_vars

\* Every awaited collaborator call returns or fails, and every prompt gets
\* an answer that confirm accepts after at most MaxInvalid others: a step
\* that is possible is eventually taken.
FairSpec == Spec /\ WF_vars(Next)

TypeOK ==
    /\ entry \in {"run", "safeBranch", "executeSafeTransaction"}
    /\ env \in Envs
    /\ exitCode \in {Running, EXIT_OK, EXIT_USAGE, EXIT_DECLINED, EXIT_ERROR}
    /\ (pc = "done") = (exitCode # Running)
    /\ Len(txs) <= 2
    /\ invalids \in 0..MaxInvalid

\* ------------------------------------------------- vocabulary of the claims
Has(event) == \E i \in 1..Len(trace) : trace[i] = event

\* the answer at position i of the trace replies to the prompt p
Answers(i, p) == i > 1 /\ trace[i - 1] = p

NetworkCalls == {"getQuote", "balanceOf", "allowance", "sendTransaction",
                 "wait", "waitConfirmations", "sendOrder:eip712",
                 "sendOrder:presign", "Safe.create", "getSafeInfo",
                 "createTransaction", "proposeTransaction",
                 "executeTransaction"}

NoNetworkCall == \A i \in 1..Len(trace) : trace[i] \notin NetworkCalls

\* errors that are the failure of a collaborator call
CollaboratorErrors == {"readFile", "getQuote", "balanceOf", "allowance",
                       "sendTransaction", "wait",
                       "wait(NUMBER_CONFIRMATIONS_WAIT)", "signOrder",
                       "sendOrder", "Safe.create", "getSafeInfo",
                       "createTransaction", "signTransaction",
                       "getTransactionHash", "proposeTransaction"}

Exited == exitCode # Running

\* run has gone through the planner (index.ts:417-420)
Planned == entry = "safeBranch" \/ (entry = "run" /\ allowance # -1)

\* ------------------------------------------------------------------ claims

\* C1: in the EOA path a preparatory transaction is sent only right after the
\* user answered yes to the prompt of that operation; after a no the run has
\* exited with 100, the no is the last thing that happened, the operation and
\* those after it were not sent and no order was posted.
C1_PreparatoryGated ==
    entry = "run" =>
        /\ \A i \in 1..Len(trace) :
              trace[i] = "sendTransaction" =>
                  /\ i > 2
                  /\ trace[i - 1] = "answer:yes"
                  /\ trace[i - 2] = "prompt:tx"
        /\ \A i \in 1..Len(trace) :
              (trace[i] = "answer:no" /\ Answers(i, "prompt:tx")) =>
                  /\ i = Len(trace)
                  /\ exitCode = 100
                  /\ Len(sent) = txIndex - 1
                  /\ orders = <<>>
        /\ Len(sent) <= Cardinality({i \in 1..Len(trace) :
                                       trace[i] = "sendTransaction"})

C1_Witness ==
    /\ entry = "run"
    /\ exitCode = 100
    /\ Len(trace) > 1
    /\ trace[Len(trace)] = "answer:no"
    /\ trace[Len(trace) - 1] = "prompt:tx"
    /\ txs = <<ApproveOperation>>

\* C2: on the EOA path and on the Safe path the order is signed and sent to
\* the order book only after a yes to 'post this order?'; after a no nothing
\* is signed, posted or proposed.
C2_PostGated ==
    /\ \A i \in 1..Len(trace) :
          trace[i] \in {"signOrder", "sendOrder:presign"} =>
              /\ i > 2
              /\ trace[i - 1] = "answer:yes"
              /\ trace[i - 2] = "prompt:post"
    /\ \A i \in 1..Len(trace) :
          trace[i] = "sendOrder:eip712" => i > 1 /\ trace[i - 1] = "signOrder"
    /\ \A i \in 1..Len(trace) :
          (trace[i] = "answer:no" /\ Answers(i, "prompt:post")) =>
              /\ i = Len(trace)
              /\ orders = <<>>
              /\ proposals = <<>>
              /\ ~Has("signOrder")
              /\ ~Has("sendOrder:eip712")
              /\ ~Has("sendOrder:presign")
              /\ ~Has("proposeTransaction")
    /\ orders # <<>> =>
          \E i \in 1..Len(trace) :
              trace[i] = "answer:yes" /\ Answers(i, "prompt:post")

C2_Witness ==
    /\ Len(orders) = 1
    /\ orders[1].signingScheme = "presign"
    /\ proposals # <<>>
    /\ Has("answer:invalid")

C4_PresignReachesCoordinator ==
    (/\ entry = "run"
     /\ env.accountType = "SAFE_WITH_EOA_PRESIGN"
     /\ env.safeAddress /\ env.mnemonic
     /\ Planned) =>
        /\ Has("Safe.create")
        /\ error \in CollaboratorErrors \cup {"none"}

InFlight ==
    (IF pc \in {"start", "done", "executeSafeTransaction"} THEN {} ELSE {pc})
    \cup (IF execPc \in {"prompt:exec", "executeTransaction"}
          THEN {execPc} ELSE {})

C7_Eip1271NotImplemented ==
    (/\ entry \in {"run", "safeBranch"}
     /\ env.accountType = "SAFE_WITH_EOA_EIP1271"
     /\ Planned
     /\ txs = <<>>) =>
        /\ orders = <<>>
        /\ proposals = <<>>
        /\ (Exited /\ error \notin CollaboratorErrors) =>
              exitCode = 200 /\ error = "Not implemented EIP-1271"

\* C8: a SAFE_WITH_EOA_EIP1271 run with a pending operation takes the path
\* of SAFE_WITH_EOA_PRESIGN: it enters the Safe branch and, once the Safe
\* info is there, has shown the notice and then the prompt of
\* postOrderPresign.
C8_Eip1271Degrades ==
    (/\ entry \in {"run", "safeBranch"}
     /\ env.accountType = "SAFE_WITH_EOA_EIP1271"
     /\ env.safeAddress /\ env.mnemonic
     /\ Planned
     /\ Len(txs) > 0) =>
        /\ Has("Safe.create")
        /\ error \in CollaboratorErrors \cup {"none"}
        /\ threshold # 0 =>
              \E i \in 1..Len(trace) :
                  /\ trace[i] = "notice:eip1271"
                  /\ i < Len(trace)
                  /\ trace[i + 1] = "prompt:post"

\* C9: a run whose accountType is none of EOA, SAFE_WITH_EOA_PRESIGN and
\* SAFE_WITH_EOA_EIP1271 makes no network call.
C9_UnknownTypeNoNetwork ==
    (/\ entry = "run"
     /\ env.accountType \notin {"EOA", "SAFE_WITH_EOA_PRESIGN",
                                "SAFE_WITH_EOA_EIP1271"}) =>
        NoNetworkCall

\* C10: a run of type EOA, SAFE_WITH_EOA_PRESIGN or SAFE_WITH_EOA_EIP1271
\* without MNEMONIC makes no network call.
C10_NoMnemonicNoNetwork ==
    (/\ entry = "run"
     /\ ~env.mnemonic
     /\ env.accountType \in {"EOA", "SAFE_WITH_EOA_PRESIGN",
                             "SAFE_WITH_EOA_EIP1271"}) =>
        NoNetworkCall

\* C11: a run whose chain id, from the order file or else from CHAIN_ID, is
\* not a supported one makes no network call and, once it has read the order
\* file, has failed.
C11_UnsupportedChainNoNetwork ==
    (/\ entry = "run"
     /\ ~ChainSupported(env.chainId)) =>
        /\ NoNetworkCall
        /\ pc \in {"start", "readFile", "done"}

\* errors of getSdkInstance, thrown before getTradingAccounts is called
SdkErrors == {"CHAIN_ID environmentis required",
              "CHAIN_ID must be one supported chainId",
              "Either INFURA_KEY or RPC_URL environment var is required",
              "unsupported network",
              "MNEMONIC environment var is required"}

\* C12: a run whose accountType is not EOA and that has no safeAddress makes
\* no network call and ends with exit code 200, on the assertion of
\* getTradingAccounts unless reading the file or getSdkInstance failed
\* before; an EOA run requests the quote only with a signing account, and
\* without one it makes no network call and ends with 200 as well.
C12_TradingAccountRequired ==
    (entry = "run" /\ env.argGiven) =>
        /\ (env.accountType # "EOA" /\ ~env.safeAddress) =>
              /\ NoNetworkCall
              /\ pc \in {"start", "readFile", "done"}
              /\ Exited => exitCode = 200
              /\ (Exited /\ error \notin SdkErrors \cup {"readFile"}) =>
                    error = "The safeAddress is a required parameter"
        /\ env.accountType = "EOA" =>
              /\ Has("getQuote") => signer /\ fromAccount = "signingAccount"
              /\ ~env.mnemonic =>
                    /\ NoNetworkCall
                    /\ pc \in {"start", "readFile", "done"}
                    /\ Exited => exitCode = 200

C12_Witness ==
    /\ entry = "run"
    /\ env.accountType = "SAFE_WITH_EOA_PRESIGN"
    /\ ~env.safeAddress
    /\ exitCode = 200
    /\ error = "The safeAddress is a required parameter"
    /\ trace = <<"readFile">>

CallsOf(e) ==
    IF e = "sendOrder" THEN {"sendOrder:eip712", "sendOrder:presign"}
    ELSE IF e = "wait(NUMBER_CONFIRMATIONS_WAIT)" THEN {"waitConfirmations"}
    ELSE {e}

C15_ExitOkMeansSubmitted ==
    exitCode = 0 =>
        /\ Len(orders) = 1
        /\ orders[1].uid \in OrderIds
        /\ error = "none"
        /\ env.accountType \in SafeTypes =>
              /\ orders[1].signingScheme = "presign"
              /\ Len(proposals) = 1

C15_Witness ==
    /\ exitCode = 0
    /\ env.accountType = "SAFE_WITH_EOA_PRESIGN"
    /\ Len(proposals) = 1
    /\ Len(orders) = 1

\* the number of events e among the first n of the trace
CountBefore(e, n) == Cardinality({k \in 1..n : trace[k] = e})

\* C16: in the EOA path signOrder is called right after a yes to 'post this
\* order?', when every planned operation has been sent, in the planned
\* order, and both of its waits were started and have returned; the order in
\* the order book carries the signature of signOrder and the signing account
\* as owner.
C16_EoaPostAfterOperations ==
    entry = "run" =>
        /\ \A i \in 1..Len(trace) :
              trace[i] = "signOrder" =>
                  /\ i > 2
                  /\ trace[i - 1] = "answer:yes"
                  /\ trace[i - 2] = "prompt:post"
                  /\ Len(sent) = Len(txs)
                  /\ \A k \in 1..Len(txs) :
                        /\ sent[k].to = txs[k].to
                        /\ sent[k].data = txs[k].data
                        /\ sent[k].from = "signingAccount"
                  /\ CountBefore("sendTransaction", i) = Len(txs)
                  /\ CountBefore("wait", i) = Len(txs)
                  /\ CountBefore("waitConfirmations", i) = Len(txs)
                  /\ txIndex = Len(txs) + 1
        /\ \A i \in 1..Len(trace) :
              trace[i] = "prompt:post" =>
                  /\ i > 1
                  /\ trace[i - 1] \in {"waitConfirmations", "allowance",
                                       "answer:invalid"}
                  /\ trace[i - 1] = "allowance" => txs = <<>>
        /\ \A j \in 1..Len(orders) :
              /\ orders[j].signingScheme = "eip712"
              /\ orders[j].signature = "signOrder"
              /\ orders[j].owner = "signingAccount"
              /\ Has("signOrder")

C16_Witness ==
    /\ entry = "run"
    /\ Len(orders) = 1
    /\ Len(sent) = 1
    /\ txs = <<ApproveOperation>>
    /\ exitCode = 0

\* the operations of a sequence that set a pre-signature
PresignIndexes(ops) ==
    {k \in 1..Len(ops) : ops[k].data[1] = "setPreSignature"}

\* C17: on the Safe path the order book has accepted the pre-sign order
\* (signature and owner the trading account, scheme presign) before a
\* pre-signature operation exists in the sequence, before createTransaction
\* and before the proposal; the pre-signature operation carries the order
\* id that post returned.
C17_PresignOrderBeforeOperation ==
    entry = "safeBranch" =>
        /\ Len(orders) <= 1
        /\ \A j \in 1..Len(orders) :
              /\ orders[j].signingScheme = "presign"
              /\ orders[j].signature = "safeAddress"
              /\ orders[j].owner = "safeAddress"
        /\ \A k \in PresignIndexes(txs) :
              /\ Len(orders) = 1
              /\ txs[k].data = <<"setPreSignature", orders[1].uid, "true">>
              /\ txs[k].to = "settlement"
        /\ \A i \in 1..Len(trace) :
              trace[i] \in {"createTransaction", "proposeTransaction"} =>
                  /\ Len(orders) = 1
                  /\ PresignIndexes(txs) # {}
                  /\ \E j \in 1..(i - 1) : trace[j] = "sendOrder:presign"
        /\ \A n \in 1..Len(proposals) :
              /\ Len(orders) = 1
              /\ PresignIndexes(proposals[n]) # {}
              /\ \A k \in PresignIndexes(proposals[n]) :
                    proposals[n][k].data[2] = orders[1].uid

C17_Witness ==
    /\ entry = "safeBranch"
    /\ Len(proposals) = 1
    /\ Len(orders) = 1
    /\ orders[1].uid = "uid2"
    /\ proposals[1][Len(proposals[1])].data[2] = "uid2"

\* the operations of a sequence that approve the vault relayer
ApproveIndexes(ops) == {k \in 1..Len(ops) : ops[k].data[1] = "approve"}

\* C18: every Safe transaction proposed has one or two operations; the last
\* one, and only the last one, sets the pre-signature; an approval, when
\* present, stands before it.
C18_ApproveBeforePresign ==
    \A n \in 1..Len(proposals) :
        /\ Len(proposals[n]) \in {1, 2}
        /\ PresignIndexes(proposals[n]) = {Len(proposals[n])}
        /\ \A a \in ApproveIndexes(proposals[n]) :
              \A q \in PresignIndexes(proposals[n]) : a < q
        /\ ApproveIndexes(proposals[n]) \cup PresignIndexes(proposals[n])
               = 1..Len(proposals[n])

C18_Witness ==
    /\ Len(proposals) = 1
    /\ Len(proposals[1]) = 2
    /\ proposals[1][1].data[1] = "approve"
    /\ proposals[1][2].data[1] = "setPreSignature"

\* C19: on the Safe path no operation is sent by the signer; at most one
\* Safe transaction is created and proposed, it holds every operation of
\* the sequence in order, and a run that ends well has proposed exactly one.
C19_OneBundleNeverIndividually ==
    /\ env.accountType \in SafeTypes =>
          /\ sent = <<>>
          /\ ~Has("sendTransaction")
          /\ ~Has("prompt:tx")
    /\ entry = "safeBranch" =>
        /\ Len(proposals) <= 1
        /\ CountBefore("createTransaction", Len(trace)) <= 1
        /\ CountBefore("proposeTransaction", Len(trace)) <= 1
        /\ \A n \in 1..Len(proposals) :
              /\ Len(proposals[n]) = Len(txs)
              /\ \A k \in 1..Len(txs) :
                    /\ proposals[n][k].to = txs[k].to
                    /\ proposals[n][k].value = txs[k].value
                    /\ proposals[n][k].data = txs[k].data
        /\ exitCode = 0 => Len(proposals) = 1

C19_Witness ==
    /\ entry = "safeBranch"
    /\ exitCode = 0
    /\ Len(proposals) = 1
    /\ Len(txs) = 2
    /\ sent = <<>>

\* the numbers of signers named by the messages printed so far
Reported ==
    {n \in 0..(MaxThreshold + 1) : Has(moreSignatures(n))}

\* C20: once executeSafeTransaction has been called, execution was offered
\* exactly when the threshold is 1; with a greater threshold the one message
\* names threshold - 1 signers, no execution prompt is shown and
\* safe.executeTransaction is not called.
C20_ThresholdBranching ==
    /\ (Has("prompt:exec") \/ Reported # {}) =>
          /\ Has("prompt:exec") <=> threshold = 1
          /\ threshold = 1 => Reported = {}
          /\ threshold > 1 =>
                /\ Reported = {threshold - 1}
                /\ execPc = "returned"
                /\ ~Has("executeTransaction")
    /\ (entry = "safeBranch" /\ Len(proposals) = 1) =>
          (Has("prompt:exec") \/ Reported # {})
    /\ entry = "executeSafeTransaction" =>
          (Has("prompt:exec") \/ Reported # {})
    /\ Has("executeTransaction") => threshold = 1

C20_Witness ==
    /\ entry = "safeBranch"
    /\ Len(proposals) = 1
    /\ threshold = 2
    /\ Reported = {1}
    /\ execPc = "returned"

\* C21: a balance below sellAmountBeforeFee ends the run in run().catch
\* with the balance error and exit code 200, as soon as the balance is read:
\* the allowance is not asked for, no operation is in txs, no transaction is
\* sent, no order posted and nothing proposed.
C21_InsufficientBalanceStops ==
    (balance # -1 /\ balance < env.sellAmountBeforeFee) =>
        /\ exitCode = 200
        /\ error = "User doesn't have enough balance"
        /\ ~Has("allowance")
        /\ allowance = -1
        /\ txs = <<>>
        /\ sent = <<>>
        /\ orders = <<>>
        /\ proposals = <<>>
        /\ trace[Len(trace)] = "balanceOf"

C21_Witness ==
    /\ balance = 1
    /\ env.sellAmountBeforeFee = 2
    /\ error = "User doesn't have enough balance"
    /\ exitCode = 200

\* the calls by which the planner and the steps before it read
Reads == {"readFile", "getQuote", "balanceOf", "allowance"}

\* C22: once the allowance is read, the planner has left no operation when
\* allowance >= sellAmount, and otherwise exactly one, which approves
\* 2^256 - 1 (64 hex digits f) to the vault relayer on the sell token; up to
\* that point the run has made only reads, so the decision is a function of
\* the allowance and the amount read.
C22_ApprovalDecision ==
    (entry = "run" /\ allowance # -1) =>
        /\ allowance >= quote.sellAmount => txs = <<>>
        /\ allowance < quote.sellAmount =>
              /\ Len(txs) = 1
              /\ txs[1].to = "sellToken"
              /\ txs[1].value = "0"
              /\ txs[1].data = <<"approve", "vaultRelayer",
                    "0xffffffffffffffffffffffffffffffffffffffffffffffffffffffffffffffff">>
        /\ balance >= env.sellAmountBeforeFee
        /\ \A i \in 1..Len(trace) :
              trace[i] = "allowance" =>
                  \A j \in 1..i : trace[j] \in Reads
        /\ CountBefore("allowance", Len(trace)) = 1
        /\ CountBefore("balanceOf", Len(trace)) = 1

C22_Witness ==
    /\ entry = "run"
    /\ allowance = 0
    /\ quote.sellAmount = 1
    /\ Len(txs) = 1
    /\ Len(sent) = 1

\* the slippage tolerance the run applies
Bips == slippageToleranceBips(env.slippageToleranceBips)

\* C23: the buyAmount of the RawOrder is
\* floor(buyAmountQuote * (10000 - slippageToleranceBips) / 10000), with 100
\* bips when the order names none, and its sellAmount is the sellAmount of
\* the quote; 164577689090780 with 100 bips gives 162931912199872.
C23_CustomPriceFloor ==
    /\ rawOrder # NoRawOrder =>
          /\ rawOrder.sellAmount = quote.sellAmount
          /\ rawOrder.buyAmount * 10000 <= quote.buyAmount * (10000 - Bips)
          /\ quote.buyAmount * (10000 - Bips)
                < (rawOrder.buyAmount + 1) * 10000
          /\ env.slippageToleranceBips = <<>> => Bips = 100
          /\ (Bips >= 0 /\ Bips <= 10000) =>
                BigNumberFrom(rawOrder.buyAmount)
                  = getCustomPriceBigNumber(BigNumberFrom(quote.buyAmount),
                                            Bips)
    /\ getCustomPriceBigNumber(<<780, 8909, 5776, 164>>, 100)
         = <<9872, 1219, 9319, 162>>

\* the buy amount getCustomPrice gives for the quote of the run with another
\* tolerance
AfterSlippage(bips) ==
    getCustomPrice(quote.sellAmount, quote.buyAmount, <<bips>>).buyAmount

\* the tolerances of the claim: 0 <= bips < 10000
InRange(bips) == bips >= 0 /\ bips < 10000

\* C24 as stated: for a quote > 0 and a tolerance in range the buy amount
\* is at most the quote, and any greater tolerance in range gives a strictly
\* smaller buy amount (any smaller one a strictly greater amount).
C24_StrictlyDecreasing ==
    (rawOrder # NoRawOrder /\ quote.buyAmount > 0 /\ InRange(Bips)) =>
        /\ rawOrder.buyAmount <= quote.buyAmount
        /\ \A bips2 \in SlippageBips :
              /\ (InRange(bips2) /\ Bips < bips2) =>
                    AfterSlippage(bips2) < rawOrder.buyAmount
              /\ (InRange(bips2) /\ bips2 < Bips) =>
                    rawOrder.buyAmount < AfterSlippage(bips2)

\* C24, amended: for a quote > 0 and a tolerance in range the buy amount is
\* at most the quote and never grows with the tolerance; it is strictly
\* smaller for the greater tolerance when the quote is at least 10000.
C24_NonIncreasing ==
    (rawOrder # NoRawOrder /\ quote.buyAmount > 0 /\ InRange(Bips)) =>
        /\ rawOrder.buyAmount <= quote.buyAmount
        /\ rawOrder.buyAmount >= 0
        /\ \A bips2 \in SlippageBips :
              /\ (InRange(bips2) /\ Bips < bips2) =>
                    /\ AfterSlippage(bips2) <= rawOrder.buyAmount
                    /\ quote.buyAmount >= 10000 =>
                          AfterSlippage(bips2) < rawOrder.buyAmount
              /\ (InRange(bips2) /\ bips2 < Bips) =>
                    /\ rawOrder.buyAmount <= AfterSlippage(bips2)
                    /\ quote.buyAmount >= 10000 =>
                          rawOrder.buyAmount < AfterSlippage(bips2)

C24_Witness ==
    /\ entry = "run"
    /\ Len(orders) = 1
    /\ quote.buyAmount = 1
    /\ env.slippageToleranceBips = <<1>>
    /\ rawOrder.buyAmount = 0
    /\ AfterSlippage(100) = 0
    /\ AfterSlippage(0) = 1

\* C25: a RawOrder whose buyAmount is zero or negative because the
\* tolerance is 10000 bips or more is neither given to signOrder nor to
\* sendOrder.
C25_ExcessToleranceRejected ==
    (rawOrder # NoRawOrder /\ Bips >= 10000 /\ rawOrder.buyAmount <= 0) =>
        /\ ~Has("signOrder")
        /\ ~Has("sendOrder:eip712")
        /\ ~Has("sendOrder:presign")
        /\ \A j \in 1..Len(orders) : orders[j].buyAmount > 0

\* what an EOA run with one approval does when every call succeeds and both
\* prompts are answered with yes
EoaScenario ==
    <<"readFile", "getQuote", "balanceOf", "allowance", "prompt:tx",
      "answer:yes", "sendTransaction", "wait", "waitConfirmations",
      "prompt:post", "answer:yes", "signOrder", "sendOrder:eip712",
      "printExplorer">>

\* C26: an EOA run that read a sufficient balance and a zero allowance, in
\* which no call failed and no prompt got another answer than yes, follows
\* EoaScenario; at its end exactly one approval was sent, then exactly one
\* EIP-712 order posted, its link {explorerBase}/orders/{orderId} printed,
\* and the exit code is 0.
C26_EoaEndToEnd ==
    ( /\ entry = "run"
      /\ env.accountType = "EOA"
      /\ allowance = 0
      /\ error = "none"
      /\ ~Has("answer:no")
      /\ ~Has("answer:invalid") ) =>
        /\ Len(trace) <= Len(EoaScenario)
        /\ trace = SubSeq(EoaScenario, 1, Len(trace))
        /\ exitCode \in {-1, 0}
        /\ (exitCode = 0) = (trace = EoaScenario)
        /\ exitCode = 0 =>
              /\ Len(sent) = 1
              /\ sent[1].data[1] = "approve"
              /\ sent[1].from = "signingAccount"
              /\ Len(orders) = 1
              /\ orders[1].signingScheme = "eip712"
              /\ orders[1].signature = "signOrder"
              /\ (orders[1].uid = "uid1"
                     /\ links = <<"{explorerBase}/orders/uid1">>)
                 \/ (orders[1].uid = "uid2"
                       /\ links = <<"{explorerBase}/orders/uid2">>)
              /\ proposals = <<>>

C26_Witness ==
    /\ entry = "run"
    /\ env.accountType = "EOA"
    /\ allowance = 0
    /\ trace = EoaScenario
    /\ exitCode = 0
    /\ links = <<"{explorerBase}/orders/uid2">>

\* C27: without a command-line argument the run has exit code 99 after its
\* first step, having printed the usage only: the order file is not read and
\* no collaborator is called; 99 is the exit code of no other run.
C27_MissingArgumentExits99 ==
    /\ (entry = "run" /\ ~env.argGiven /\ pc # "start") =>
          /\ exitCode = 99
          /\ trace = <<"usage">>
          /\ ~Has("readFile")
          /\ NoNetworkCall
          /\ error = "none"
          /\ quote = NoQuote
    /\ exitCode = 99 => (entry = "run" /\ ~env.argGiven)
    /\ Has("readFile") => env.argGiven

C27_Witness ==
    /\ entry = "run"
    /\ ~env.argGiven
    /\ exitCode = 99
    /\ trace = <<"usage">>

\* the calls to the Safe and to its coordination service
SafeCalls == {"Safe.create", "getSafeInfo", "createTransaction",
              "signTransaction", "getTransactionHash", "proposeTransaction",
              "executeTransaction"}

\* C28: a run of an EOA makes no call to the Safe or its service, proposes
\* nothing and posts no order with the scheme presign; a run of either Safe
\* account type never calls signOrder, sends no transaction of its own and
\* posts no order with an EIP-712 signature.
C28_SchemeByAccountType ==
    /\ env.accountType = "EOA" =>
          /\ \A i \in 1..Len(trace) :
                trace[i] \notin SafeCalls \cup {"sendOrder:presign"}
          /\ proposals = <<>>
          /\ \A j \in 1..Len(orders) :
                /\ orders[j].signingScheme = "eip712"
                /\ orders[j].signature = "signOrder"
    /\ env.accountType \in SafeTypes =>
          /\ ~Has("signOrder")
          /\ ~Has("sendOrder:eip712")
          /\ \A j \in 1..Len(orders) :
                /\ orders[j].signingScheme = "presign"
                /\ orders[j].signature = "safeAddress"

C28_Witness ==
    /\ env.accountType = "EOA"
    /\ Len(orders) = 1
    /\ exitCode = 0

\* the exit codes of the program
ExitCodes == {0, 99, 100, 200}

\* C29: when every call returns or fails and every prompt is answered, a
\* run (from the process start or from the Safe branch) ends with an exit
\* code of {0, 99, 100, 200}; nothing happens after the exit: neither is a
\* call made nor the exit code changed.
C29_RunTerminates ==
    /\ <>(entry = "executeSafeTransaction" \/ exitCode \in ExitCodes)
    /\ [][exitCode = -1 /\ exitCode' \in ExitCodes \cup {-1}]_vars

C29_Witness ==
    /\ entry = "run"
    /\ exitCode = 100
    /\ pc = "done"
    /\ Has("answer:invalid")
    /\ Len(sent) = 1

\* the questions of the program
Prompts == {"prompt:tx", "prompt:post", "prompt:exec"}

\* the calls that a yes to a question allows
GatedCalls(prompt) ==
    IF prompt = "prompt:tx" THEN {"sendTransaction"}
    ELSE IF prompt = "prompt:post" THEN {"signOrder", "sendOrder:presign"}
    ELSE {"executeTransaction"}

\* C30: confirm returns true exactly for y and Y, false exactly for n and
\* N, and asks again otherwise.  In a run every invalid answer is followed
\* by the same question and by nothing else, however many came before; only
\* an answer y or Y is followed by the call the question guards, and only an
\* answer n or N ends the run with 100 (or the execution offer).
C30_ConfirmGate ==
    /\ \A r \in Responses :
          /\ (confirm(r) = "true") = (r \in {"y", "Y"})
          /\ (confirm(r) = "false") = (r \in {"n", "N"})
          /\ (confirm(r) = "retry") = (r \notin {"y", "Y", "n", "N"})
    /\ \A i \in 1..Len(trace) :
          /\ trace[i] \in {"answer:invalid", "answer:yes", "answer:no"} =>
                (i > 1 /\ trace[i - 1] \in Prompts)
          /\ trace[i] = "answer:invalid" =>
                (i < Len(trace) /\ trace[i + 1] = trace[i - 1])
          /\ trace[i] = "answer:yes" =>
                (i < Len(trace) /\ trace[i + 1] \in GatedCalls(trace[i - 1]))
          /\ trace[i] = "answer:no" =>
                /\ i = Len(trace)
                /\ exitCode = 100 \/ execPc = "returned"
          /\ (trace[i] \in Prompts /\ i < Len(trace)) =>
                trace[i + 1] \in {"answer:invalid", "answer:yes",
                                  "answer:no", "printExplorer"}
    /\ invalids = CountBefore("answer:invalid", Len(trace))

C30_Witness ==
    /\ CountBefore("answer:invalid", Len(trace)) = 2
    /\ Has("answer:yes")
    /\ Len(sent) = 1
    /\ trace[5] = "prompt:tx"
    /\ trace[6] = "answer:invalid"
    /\ trace[8] = "answer:invalid"
    /\ trace[10] = "answer:yes"

\* C31: in the EOA path a transaction sent is followed by its wait for
\* inclusion and then by its wait for 1 confirmation, and by nothing in
\* between; a question (for the next operation or for the order) is on the
\* screen only when every transaction sent so far has completed both waits;
\* the transactions are sent in the order of the plan.
C31_TwoWaitsBeforeNextPrompt ==
    entry = "run" =>
        /\ \A i \in 1..Len(trace) :
              trace[i] = "sendTransaction" =>
                  /\ i < Len(trace) => trace[i + 1] = "wait"
                  /\ i + 1 < Len(trace) => trace[i + 2] = "waitConfirmations"
                  /\ i + 2 < Len(trace) =>
                        trace[i + 3] \in {"prompt:tx", "prompt:post"}
        /\ \A k \in 1..Len(sent) :
              /\ sent[k].to = txs[k].to
              /\ sent[k].data = txs[k].data
              /\ k < Len(sent) => sent[k].waits = <<"wait()", "wait(1)">>
        /\ (pc \in {"prompt:tx", "prompt:post", "signOrder",
                     "sendOrder:eip712"} \/ exitCode \in {0, 100}) =>
              /\ \A k \in 1..Len(sent) :
                    sent[k].waits = <<"wait()", "wait(1)">>
              /\ Len(sent) = txIndex - 1
        /\ pc = "sendTransaction" => Len(sent) = txIndex - 1
        /\ pc = "wait" =>
              (Len(sent) = txIndex /\ sent[txIndex].waits = <<>>)
        /\ pc = "waitConfirmations" =>
              (Len(sent) = txIndex /\ sent[txIndex].waits = <<"wait()">>)

C31_Witness ==
    /\ entry = "run"
    /\ pc = "prompt:post"
    /\ Len(sent) = 1
    /\ sent[1].waits = <<"wait()", "wait(1)">>
    /\ trace[Len(trace)] = "prompt:post"
    /\ trace[Len(trace) - 1] = "waitConfirmations"

\* the keys of the order schema that the RawOrder has
RawOrderKeys == {"partiallyFillable", "kind", "sellTokenBalance",
                 "buyTokenBalance", "sellToken", "buyToken", "from",
                 "receiver", "validTo", "appData", "sellAmount", "buyAmount",
                 "feeAmount", "priceQuality"}

\* the receiver the run resolved
ResolvedReceiver ==
    IF env.order.receiver = <<>>
    THEN IF env.accountType = "EOA" THEN "signingAccount" ELSE "safeAddress"
    ELSE env.order.receiver[1]

\* C32: the RawOrder, as logged and given to signOrder, and every order
\* posted have no key sellAmountBeforeFee; they have the keys of the order
\* schema, with the buyAmount after slippage, the sellAmount and feeAmount
\* of the quote, priceQuality optimal and the resolved receiver.
C32_RawOrderSchema ==
    /\ rawOrder # NoRawOrder =>
          /\ "sellAmountBeforeFee" \notin DOMAIN rawOrder
          /\ DOMAIN rawOrder = RawOrderKeys
          /\ rawOrder.buyAmount
                = div(quote.buyAmount * (10000 - Bips), 10000)
          /\ rawOrder.sellAmount = quote.sellAmount
          /\ rawOrder.feeAmount = quote.feeAmount
          /\ rawOrder.priceQuality = "optimal"
          /\ rawOrder.receiver = ResolvedReceiver
    /\ \A j \in 1..Len(orders) :
          /\ "sellAmountBeforeFee" \notin DOMAIN orders[j]
          /\ DOMAIN orders[j]
                = RawOrderKeys \cup {"uid", "signature", "signingScheme",
                                     "owner"}
          /\ \A k \in RawOrderKeys : orders[j][k] = rawOrder[k]
    /\ (Has("signOrder") \/ Has("sendOrder:presign")) =>
          rawOrder # NoRawOrder

C32_Witness ==
    /\ entry = "run"
    /\ Len(orders) = 1
    /\ env.order.receiver = <<"receiverParam">>
    /\ orders[1].receiver = "receiverParam"
    /\ orders[1].priceQuality = "optimal"
    /\ orders[1].feeAmount = 1
    /\ orders[1].sellAmount = 1

\* C33: the quote query has kind sell, both balances erc20, partiallyFillable
\* false unless the order sets it, the appData of the order or else that of
\* the configuration, the resolved accounts as from and receiver, the
\* sellAmountBeforeFee of the order, and validTo the least number of
\* seconds not before now + 1800000 ms; building it posts and sends nothing.
C33_QuoteQuery ==
    quoteOrder # NoQuoteOrder =>
        /\ quoteOrder.kind = "sell"
        /\ quoteOrder.sellTokenBalance = "erc20"
        /\ quoteOrder.buyTokenBalance = "erc20"
        /\ env.order.partiallyFillable = <<>> =>
              quoteOrder.partiallyFillable = FALSE
        /\ env.order.partiallyFillable # <<>> =>
              quoteOrder.partiallyFillable = env.order.partiallyFillable[1]
        /\ env.order.appData # <<>> =>
              quoteOrder.appData = env.order.appData[1]
        /\ (env.order.appData = <<>> /\ env.order.APP_DATA # <<>>) =>
              quoteOrder.appData = env.order.APP_DATA[1]
        /\ (env.order.appData = <<>> /\ env.order.APP_DATA = <<>>) =>
              quoteOrder.appData = APP_DATA(<<>>)
        /\ quoteOrder.from
              = IF env.accountType = "EOA" THEN "signingAccount"
                ELSE "safeAddress"
        /\ quoteOrder.receiver = ResolvedReceiver
        /\ quoteOrder.sellAmountBeforeFee = env.sellAmountBeforeFee
        /\ quoteOrder.validTo * 1000 >= env.now + 1800000
        /\ (quoteOrder.validTo - 1) * 1000 < env.now + 1800000
        /\ (entry = "run" /\ pc = "getQuote") =>
              (trace = <<"readFile", "getQuote">> /\ sent = <<>>
                 /\ orders = <<>> /\ proposals = <<>>)

C33_Witness ==
    /\ entry = "run"
    /\ pc = "getQuote"
    /\ env.now = 1
    /\ quoteOrder.validTo = 1801
    /\ env.order.partiallyFillable = <<>>
    /\ quoteOrder.partiallyFillable = FALSE
    /\ quoteOrder.appData = APP_DATA(<<>>)

\* C34: the account the quote is asked for, and every order is posted for,
\* is the signing account when accountType is EOA and the safeAddress for
\* every other accountType; the receiver is the receiver of the order file
\* when it has one and that account otherwise.
C34_TradingAccounts ==
    /\ quoteOrder # NoQuoteOrder =>
          /\ env.accountType = "EOA" =>
                (quoteOrder.from = "signingAccount" /\ signer)
          /\ env.accountType # "EOA" =>
                (quoteOrder.from = "safeAddress" /\ env.safeAddress)
          /\ env.order.receiver # <<>> =>
                quoteOrder.receiver = env.order.receiver[1]
          /\ env.order.receiver = <<>> =>
                quoteOrder.receiver = quoteOrder.from
    /\ \A j \in 1..Len(orders) :
          /\ orders[j].from = quoteOrder.from
          /\ orders[j].owner = quoteOrder.from
          /\ orders[j].receiver = quoteOrder.receiver

C34_Witness ==
    /\ entry = "run"
    /\ env.accountType = "SAFE_WITH_EOA_PROPOSER"
    /\ env.order.receiver = <<>>
    /\ quoteOrder # NoQuoteOrder
    /\ quoteOrder.from = "safeAddress"
    /\ quoteOrder.receiver = "safeAddress"
    /\ Has("allowance")

\* C35: exit code 100 comes right after a no at a question and never with
\* an error; an error that reached run().catch gives exit code 200, and 200
\* is given for no other reason.
C35_DeclineIsNotAnError ==
    /\ exitCode = 100 =>
          /\ error = "none"
          /\ Len(trace) > 1
          /\ trace[Len(trace)] = "answer:no"
          /\ trace[Len(trace) - 1] \in {"prompt:tx", "prompt:post"}
    /\ error # "none" => (exitCode = 200 /\ pc = "done")
    /\ exitCode = 200 => (error # "none" /\ ~Has("answer:no"))
    /\ exitCode = 0 => error = "none"

C35_Witness ==
    /\ exitCode = 200
    /\ error = "sendOrder"
    /\ Has("answer:yes")
    /\ Len(sent) = 1

\* C36: getSigner gives a wallet (or asks for the mnemonic) exactly for
\* 'EOA' and 'SAFE_WITH_EOA_PROPOSER' and nothing for any other string; so a
\* run of 'SAFE_WITH_EOA_PRESIGN' or 'SAFE_WITH_EOA_EIP1271' has no signer,
\* makes no call to the Safe, asks nothing and posts no order, and as soon as
\* its allowance is read it has ended with the AssertionError and exit code
\* 200, the quote, the balance and the allowance having been requested.
C36_SafeTypesStopAtAssert ==
    /\ \A a \in AccountTypes, m \in BOOLEAN :
          /\ getSigner(a, m) # "undefined" <=> a \in {"EOA", "SAFE_WITH_EOA_PROPOSER"}
          /\ getSigner(a, TRUE) = "wallet" <=> a \in {"EOA", "SAFE_WITH_EOA_PROPOSER"}
    /\ (entry = "run" /\ env.accountType \in {"SAFE_WITH_EOA_PRESIGN", "SAFE_WITH_EOA_EIP1271"}) =>
          /\ ~signer
          /\ orders = <<>> /\ proposals = <<>> /\ sent = <<>>
          /\ \A i \in 1..Len(trace) :
                trace[i] \notin SafeCalls \cup {"prompt:tx", "prompt:post", "signOrder",
                                               "sendOrder:eip712", "sendOrder:presign"}
          /\ exitCode \notin {0, 100}
          /\ allowance # -1 =>
                /\ pc = "done" /\ exitCode = 200 /\ error = "AssertionError"
                /\ Has("getQuote") /\ Has("balanceOf") /\ Has("allowance")
          /\ error = "AssertionError" => allowance # -1

C36_Witness ==
    /\ entry = "run"
    /\ env.accountType = "SAFE_WITH_EOA_EIP1271"
    /\ env.mnemonic
    /\ allowance # -1
    /\ error = "AssertionError"
    /\ exitCode = 200

\* C37: whenever the planner has returned no approve operation, the
\* allowance read is at least sellAmountBeforeFee, the quote's sellAmount
\* plus its feeAmount, which is the amount the balance check requires.
C37_AllowanceCoversFee ==
    (entry = "run" /\ allowance # -1 /\ txs = <<>>) =>
        /\ allowance >= env.sellAmountBeforeFee
        /\ allowance >= quote.sellAmount + quote.feeAmount

\* C38: a run posts at most one order: sendOrder is called at most once,
\* the order book holds at most one order of the run, the order it holds is
\* the one of that call, and while the call is in flight it holds none.
C38_AtMostOneOrder ==
    /\ Len(orders) <= 1
    /\ Cardinality({i \in 1..Len(trace) : trace[i] \in {"sendOrder:eip712", "sendOrder:presign"}}) <= 1
    /\ Len(orders) = 1 =>
          Cardinality({i \in 1..Len(trace) : trace[i] \in {"sendOrder:eip712", "sendOrder:presign"}}) = 1
    /\ pc \in {"sendOrder:eip712", "sendOrder:presign"} => orders = <<>>

C38_Witness ==
    /\ Len(orders) = 1
    /\ orders[1].signingScheme = "presign"
    /\ Len(proposals) = 1
    /\ Has("sendOrder:presign")
    /\ Has("answer:yes")

\* the fields of the quote query that the order has to carry as they were
QueryFieldsKept == {"validTo", "from", "sellToken", "buyToken", "kind",
                    "partiallyFillable", "appData"}

\* C39: the RawOrder has every field of the quote query except
\* sellAmountBeforeFee with the value the query had, and every order posted
\* carries the validTo, from, sellToken, buyToken, kind, partiallyFillable
\* and appData of the query, whatever questions and waits came in between.
C39_QueryFieldsKept ==
    /\ quoteOrder # NoQuoteOrder => QueryFieldsKept \subseteq DOMAIN quoteOrder
    /\ rawOrder # NoRawOrder =>
          \A k \in DOMAIN quoteOrder \ {"sellAmountBeforeFee"} :
              k \in DOMAIN rawOrder /\ rawOrder[k] = quoteOrder[k]
    /\ \A j \in 1..Len(orders) :
          \A k \in QueryFieldsKept :
              k \in DOMAIN orders[j] /\ orders[j][k] = quoteOrder[k]

C39_Witness ==
    /\ entry = "run"
    /\ Len(orders) = 1
    /\ Len(sent) = 1
    /\ sent[1].waits = <<"wait()", "wait(1)">>
    /\ env.order.partiallyFillable = <<TRUE>>
    /\ orders[1].partiallyFillable
    /\ orders[1].validTo = quoteOrder.validTo
    /\ orders[1].appData = "0xorder"

====
